---- MODULE Spec2Model ----
(***************************************************************************)
(* HeatSafe: comfort scoring of street segments and cost-weighted routing  *)
(* (src/EDA/compute_edge_comfort.py).                                      *)
(*                                                                         *)
(* Numbers.  The program computes in IEEE doubles; the model computes in   *)
(* exact rationals.  A number is a pair <<n, d>> with d > 0 in lowest      *)
(* terms; the missing value (numpy's NaN) is <<0, 0>>.  Every arithmetic   *)
(* operator propagates NaN and every comparison with NaN is FALSE, as in   *)
(* numpy and pandas.                                                       *)
(***************************************************************************)
EXTENDS Integers, Sequences, FiniteSets, TLC

VARIABLES
    pc,        \* position in the module-level script / in the call modelled
    edges,     \* the edges GeoDataFrame: a sequence of rows
    G,         \* the graph: segment identity <<u, v, key>> -> attribute dict
    idx,       \* position of the write loop (line 85) in edges
    series,    \* argument of a call of min_max
    normed,    \* its return value
    weights,   \* <<w_L, w_N, w_A>> of a call of the comfort expression
    inputs,    \* <<LST_n, NDVI_n, AOD_n>> of that call
    score,     \* its value
    orig_node, \* find_coolest_route: nearest node of the origin
    dest_node, \* find_coolest_route: nearest node of the destination
    bd,        \* locals of the shortest-path search
    route,     \* the node list find_coolest_route returns
    outcome    \* "idle", "searching", "found" or "nopath"

vars == <<pc, edges, G, idx, series, normed, weights, inputs, score,
          orig_node, dest_node, bd, route, outcome>>

---------------------------------------------------------------------------
(* Rational arithmetic with NaN                                            *)

NaN == <<0, 0>>

IsNaN(x) == x[2] = 0

Abs(n) == IF n < 0 THEN -n ELSE n

RECURSIVE GCD(_, _)
GCD(a, b) == IF b = 0 THEN a ELSE GCD(b, a % b)

\* n/d in lowest terms with a positive denominator (d # 0)
Rat(n, d) ==
    LET g == GCD(Abs(n), Abs(d))
        s == IF d < 0 THEN -1 ELSE 1
    IN  <<s * (n \div g), s * (d \div g)>>

R(n) == <<n, 1>>

RAdd(a, b) ==
    IF IsNaN(a) \/ IsNaN(b) THEN NaN
    ELSE LET l == (a[2] \div GCD(a[2], b[2])) * b[2]
         IN  Rat(a[1] * (l \div a[2]) + b[1] * (l \div b[2]), l)

RNeg(a) == IF IsNaN(a) THEN NaN ELSE <<-a[1], a[2]>>

RSub(a, b) == RAdd(a, RNeg(b))

RMul(a, b) ==
    IF IsNaN(a) \/ IsNaN(b) THEN NaN
    ELSE LET g1 == GCD(Abs(a[1]), b[2])
             g2 == GCD(Abs(b[1]), a[2])
         IN  Rat((a[1] \div g1) * (b[1] \div g2), (a[2] \div g2) * (b[2] \div g1))

\* a / b; 0/0 is NaN as in numpy (x/0 for x # 0 is an infinity, which no
\* call of the program produces: min_max divides only when max - min >= 1e-6)
RDiv(a, b) ==
    IF IsNaN(a) \/ IsNaN(b) \/ b[1] = 0 THEN NaN
    ELSE RMul(a, Rat(b[2], b[1]))

\* comparisons, by the sign of the difference
RLt(a, b) == ~IsNaN(a) /\ ~IsNaN(b) /\ RSub(a, b)[1] < 0

RLe(a, b) == ~IsNaN(a) /\ ~IsNaN(b) /\ RSub(a, b)[1] <= 0

Range(s) == {s[i] : i \in DOMAIN s}

---------------------------------------------------------------------------
(* 3. normalize values 0-1: min_max (lines 56-61)                          *)

\* np.min in place of np.nanmin: NaN as soon as one entry is NaN
npmin(s) ==
    IF \E i \in DOMAIN s : IsNaN(s[i]) THEN NaN
    ELSE CHOOSE m \in Range(s) : \A x \in Range(s) : RLe(m, x)

\* np.nanmin / np.nanmax: over the non-NaN entries; NaN when there is none
nanmin(s) ==
    LET nn == {x \in Range(s) : ~IsNaN(x)}
    IN  IF nn = {} THEN NaN
        ELSE CHOOSE m \in nn : \A x \in nn : RLe(m, x)

nanmax(s) ==
    LET nn == {x \in Range(s) : ~IsNaN(x)}
    IN  IF nn = {} THEN NaN
        ELSE CHOOSE m \in nn : \A x \in nn : RLe(x, m)

\* the literal 1e-6 of line 59
Eps == <<1, 1000000>>

\* line 59: s_max - s_min < 1e-6
Degenerate(s_min, s_max) == RLt(RSub(s_max, s_min), Eps)

\* line 60: np.zeros_like(s): a zero at every position of s
zeros_like(s) == [i \in DOMAIN s |-> R(0)]

min_max(s) ==
    LET s_min == nanmin(s)
        s_max == nanmax(s)
    IN  IF Degenerate(s_min, s_max) THEN zeros_like(s)
        ELSE [i \in DOMAIN s |-> RDiv(RSub(s[i], s_min), RSub(s_max, s_min))]

---------------------------------------------------------------------------
(* 4. comfort score and routing cost (lines 19, 69-76)                     *)

\* line 19: w_L, w_N, w_A = 0.50, 0.30, 0.20
w_L == <<1, 2>>
w_N == <<3, 10>>
w_A == <<1, 5>>

\* the expression with the pollution term not inverted
ComfortPollDirect(wL, wN, wA, LST_n, NDVI_n, AOD_n) ==
    RAdd(RAdd(RMul(wL, RSub(R(1), LST_n)),
              RMul(wN, NDVI_n)),
         RMul(wA, AOD_n))

\* lines 71-73 with the weights as parameters:
\* wL*(1 - LST_n) + wN*(NDVI_n) + wA*(1 - AOD_n)
Comfort(wL, wN, wA, LST_n, NDVI_n, AOD_n) ==
    RAdd(RAdd(RMul(wL, RSub(R(1), LST_n)),
              RMul(wN, NDVI_n)),
         RMul(wA, RSub(R(1), AOD_n)))

\* line 76: edges['cost'] = 1.0 - edges['comfort']
CostOfComfort(comfort) == RSub(R(1), comfort)

---------------------------------------------------------------------------
(* The edges table and the graph                                           *)

\* A cell of the u, v, key columns: <<"int", n>> is the integer n,
\* <<"float", t>> the float t/10, <<"nan", 0>> a missing identifier.
CanInt(cell) == cell[1] \in {"int", "float"}

\* int(x): the integer itself; a float truncated toward zero; NaN raises
int(cell) ==
    IF cell[1] = "int" THEN cell[2]
    ELSE IF cell[2] >= 0 THEN cell[2] \div 10 ELSE -((-cell[2]) \div 10)

\* dict.get(k, default)
Get(d, k, default) == IF k \in DOMAIN d THEN d[k] ELSE default

\* a column of the table, and the table with a column assigned
Col(name) == [i \in DOMAIN edges |-> edges[i][name]]

SetCol(name, vals) == [i \in DOMAIN edges |-> (name :> vals[i]) @@ edges[i]]

\* the keys of the parallel segments from u to v: G[u][v]
Parallel(g, u, v) == {s[3] : s \in {t \in DOMAIN g : t[1] = u /\ t[2] = v}}

\* G[u][v] raises KeyError when u is no node with a segment to v
HasAdj(g, u, v) == Parallel(g, u, v) # {}

---------------------------------------------------------------------------
(* The module-level script, lines 63-96                                    *)

\* the script touches neither the calls modelled apart nor the router
ScriptFrame ==
    UNCHANGED <<series, normed, weights, inputs, score,
                orig_node, dest_node, bd, route, outcome>>

\* lines 63-65
NormLST ==
    /\ pc = "norm_lst"
    /\ edges' = SetCol("LST_n", min_max(Col("lst_mean")))
    /\ pc' = "norm_ndvi"
    /\ UNCHANGED <<G, idx>>
    /\ ScriptFrame

NormNDVI ==
    /\ pc = "norm_ndvi"
    /\ edges' = SetCol("NDVI_n", min_max(Col("ndvi_mean")))
    /\ pc' = "norm_aod"
    /\ UNCHANGED <<G, idx>>
    /\ ScriptFrame

NormAOD ==
    /\ pc = "norm_aod"
    /\ edges' = SetCol("AOD_n", min_max(Col("aod_mean")))
    /\ pc' = "comfort"
    /\ UNCHANGED <<G, idx>>
    /\ ScriptFrame

\* lines 71-73
RowComfort(row) == Comfort(w_L, w_N, w_A, row.LST_n, row.NDVI_n, row.AOD_n)

ScoreComfort ==
    /\ pc = "comfort"
    /\ edges' = SetCol("comfort", [i \in DOMAIN edges |-> RowComfort(edges[i])])
    /\ pc' = "cost"
    /\ UNCHANGED <<G, idx>>
    /\ ScriptFrame

\* line 76, and the loop of line 85 starts at the first row
ScoreCost ==
    /\ pc = "cost"
    /\ edges' = SetCol("cost", [i \in DOMAIN edges |-> CostOfComfort(edges[i].comfort)])
    /\ pc' = "write"
    /\ idx' = 1
    /\ UNCHANGED G
    /\ ScriptFrame

\* line 87 and the lookup G[u][v] of line 89: does the try block raise?
Raises(g, row) ==
    \/ ~CanInt(row.u)
    \/ ~CanInt(row.v)
    \/ ~CanInt(row.key)
    \/ ~HasAdj(g, int(row.u), int(row.v))

\* line 89: key in G[u][v] (only evaluated when nothing raised)
RowTarget(row) == <<int(row.u), int(row.v), int(row.key)>>

KeyFound(g, row) == RowTarget(row) \in DOMAIN g

\* line 90: the comfort attribute stored on the segment
StoredComfort(comfort) == IF ~IsNaN(comfort) THEN comfort ELSE <<1, 2>>

\* lines 92-93: the cost attribute stored on the segment
StoredCost(cost, length) == RMul(cost, RDiv(length, R(1000)))

\* lines 90-93: the attribute dict of the segment after the two writes
WriteAttrs(attrs, row) ==
    LET withComfort == ("comfort" :> StoredComfort(row.comfort)) @@ attrs
        length == Get(withComfort, "length", R(1))
    IN  ("cost" :> StoredCost(row.cost, length)) @@ withComfort

\* a loop that gives up at the first record that raises
AfterRaiseBreak(i, n) == n + 1

\* lines 94-96: except Exception: continue -- the loop goes on with the
\* next row (i is the row that raised, n the number of rows)
AfterRaise(i, n) == i + 1

\* one iteration of the loop of lines 85-96
WriteRow ==
    /\ pc = "write"
    /\ idx <= Len(edges)
    /\ LET row == edges[idx]
       IN  IF Raises(G, row)
           THEN /\ G' = G
                /\ idx' = AfterRaise(idx, Len(edges))
           ELSE /\ G' = IF KeyFound(G, row)
                        THEN [G EXCEPT ![RowTarget(row)] = WriteAttrs(@, row)]
                        ELSE G
                /\ idx' = idx + 1
    /\ UNCHANGED <<pc, edges>>
    /\ ScriptFrame

\* the loop is exhausted; lines 99-114 only export and print
LoopEnd ==
    /\ pc = "write"
    /\ idx > Len(edges)
    /\ pc' = "done"
    /\ UNCHANGED <<edges, G, idx>>
    /\ ScriptFrame

---------------------------------------------------------------------------
(* The state the script starts from: lines 23-50                           *)

\* The walking network of lines 23-25, as OSMnx builds it: every segment
\* has a length in meters.  Two parallel segments 1 -> 2 and one 2 -> 3.
SegOrder == << <<1, 2, 0>>, <<1, 2, 1>>, <<2, 3, 0>> >>

SegLength(s) ==
    IF s = <<1, 2, 0>> THEN R(250)
    ELSE IF s = <<1, 2, 1>> THEN R(1000)
    ELSE R(400)

Network == [s \in Range(SegOrder) |-> ("length" :> SegLength(s))]

\* the zonal means of lines 45-50: a mean, or NaN where the raster has none
TempVals == {NaN, R(30), R(35), R(40)}
VegVals == {NaN, <<1, 5>>, <<3, 5>>}
PollVals == {NaN, <<1, 10>>, <<3, 10>>}

\* the u, v, key cells of row i: those of segment i of the graph
\* (lines 25, 31), or a record whose identifiers were damaged upstream
IdCells(i, variant) ==
    LET s == SegOrder[i]
        own == [u |-> <<"int", s[1]>>, v |-> <<"int", s[2]>>, key |-> <<"int", s[3]>>]
    IN  CASE variant = "own" -> own
          [] variant = "unknown_u" -> [own EXCEPT !.u = <<"int", 9>>]
          [] variant = "unknown_v" -> [own EXCEPT !.v = <<"int", 9>>]
          [] variant = "unknown_key" -> [own EXCEPT !.key = <<"int", 7>>]
          [] variant = "nan_key" -> [own EXCEPT !.key = <<"nan", 0>>]
          [] variant = "float_u" -> [own EXCEPT !.u = <<"float", 10 * s[1] + 5>>]
          [] variant = "first" ->
                [u |-> <<"int", SegOrder[1][1]>>, v |-> <<"int", SegOrder[1][2]>>,
                 key |-> <<"int", SegOrder[1][3]>>]

IdVariants ==
    {"own", "unknown_u", "unknown_v", "unknown_key", "nan_key", "float_u", "first"}

MkRow(id, lst, ndvi, aod) ==
    [u |-> id.u, v |-> id.v, key |-> id.key,
     lst_mean |-> lst, ndvi_mean |-> ndvi, aod_mean |-> aod]

Tables(Variants, T, V, P) ==
    LET N == 1 .. Len(SegOrder)
    IN  {[i \in N |-> MkRow(IdCells(i, id[i]), lst[i], ndvi[i], aod[i])] :
            id \in [N -> Variants], lst \in [N -> T],
            ndvi \in [N -> V], aod \in [N -> P]}

NoSearch ==
    [dists |-> <<>>, paths |-> <<>>, fringe |-> <<>>, seen |-> <<>>,
     c |-> 0, dir |-> 1, finaldist |-> NaN, finalpath |-> <<>>, raised |-> FALSE]

ScriptIdle ==
    /\ series = <<>> /\ normed = <<>>
    /\ weights = <<>> /\ inputs = <<>> /\ score = NaN
    /\ orig_node = 0 /\ dest_node = 0
    /\ bd = NoSearch /\ route = <<>> /\ outcome = "idle"

\* the program as it runs: the rows are the graph's own segments
Init ==
    /\ pc = "norm_lst"
    /\ edges \in Tables({"own"}, TempVals, VegVals, PollVals)
    /\ G = Network
    /\ idx = 0
    /\ ScriptIdle

\* the write loop on any batch of records: identifiers may be damaged
MapperInit ==
    /\ pc = "norm_lst"
    /\ edges \in Tables(IdVariants, {NaN, R(30), R(40)}, {<<1, 5>>}, {<<1, 10>>})
    /\ G = Network
    /\ idx = 0
    /\ ScriptIdle

Next ==
    \/ NormLST
    \/ NormNDVI
    \/ NormAOD
    \/ ScoreComfort
    \/ ScoreCost
    \/ WriteRow
    \/ LoopEnd

Spec == Init /\ [][Next]_vars

SpecMapper == MapperInit /\ [][Next]_vars

---------------------------------------------------------------------------
(* Claims about the script                                                 *)

Scored == pc \in {"cost", "write", "done"}

Costed == pc \in {"write", "done"}

\* C3: every segment the write loop wrote satisfies
\* cost = (1 - comfort) * (length / 1000), comfort being the comfort
\* attribute stored on that segment, also where the computed comfort was
\* missing.
C3_CostFromStoredComfort ==
    \A s \in DOMAIN G :
        "cost" \in DOMAIN G[s] =>
            G[s]["cost"] = RMul(RSub(R(1), G[s]["comfort"]),
                                RDiv(G[s]["length"], R(1000)))

\* a missing normalized input replaced by the neutral 0.5
Neutral(x) == IF IsNaN(x) THEN <<1, 2>> ELSE x

\* C5: a segment with a missing normalized input gets the comfort score
\* of the formula with 0.5 in place of that input alone, and its score and
\* the cost derived from it are numbers.
C5_NeutralDefaultPerTerm ==
    \A i \in DOMAIN edges :
        LET row == edges[i]
        IN  /\ Scored /\ (IsNaN(row.LST_n) \/ IsNaN(row.NDVI_n) \/ IsNaN(row.AOD_n))
                => /\ row.comfort = Comfort(w_L, w_N, w_A, Neutral(row.LST_n),
                                            Neutral(row.NDVI_n), Neutral(row.AOD_n))
                   /\ ~IsNaN(row.comfort)
            /\ Costed => ~IsNaN(row.cost)

\* C6: once the write loop has run, every segment of the network carries a
\* cost that is a number >= 0, whatever the raw metric values (missing ones
\* included).
C6_CostNonNegative ==
    pc = "done" =>
        \A s \in DOMAIN G :
            /\ "cost" \in DOMAIN G[s]
            /\ RLe(R(0), G[s]["cost"])

\* the scenario of C10: temperature means 30, 35, 40 and the normalized
\* vegetation and pollution of every segment at 0, scores computed
C10_Scenario ==
    /\ Scored
    /\ \A i \in DOMAIN edges : ~IsNaN(edges[i].ndvi_mean) /\ ~IsNaN(edges[i].aod_mean)
    /\ Col("lst_mean") = <<R(30), R(35), R(40)>>
    /\ Col("NDVI_n") = <<R(0), R(0), R(0)>>
    /\ Col("AOD_n") = <<R(0), R(0), R(0)>>

\* C10 as stated: in the scenario the temperatures normalize to
\* 0, 0.5, 1 and the comfort scores are 0.5, 0.25, 0.0.
C10_AsStated ==
    C10_Scenario =>
        /\ Col("LST_n") = <<R(0), <<1, 2>>, R(1)>>
        /\ Col("comfort") = << <<1, 2>>, <<1, 4>>, R(0) >>

\* C10 amended: in the scenario the temperatures normalize to 0, 0.5, 1
\* and the comfort scores are 0.7, 0.45, 0.2: the temperature term gives
\* 0.5, 0.25, 0.0 and the pollution term w_A*(1 - 0) adds 0.2 to each.
C10_Amended ==
    C10_Scenario =>
        /\ Col("LST_n") = <<R(0), <<1, 2>>, R(1)>>
        /\ Col("comfort") = << <<7, 10>>, <<9, 20>>, <<1, 5>> >>

C10_Witness == C10_Scenario /\ pc = "done"

\* a record whose identity, once coerced, is a segment of the network
RowExists(row) ==
    /\ CanInt(row.u) /\ CanInt(row.v) /\ CanInt(row.key)
    /\ RowTarget(row) \in DOMAIN Network

\* the records of the batch the loop has gone past
Processed ==
    IF pc = "done" THEN DOMAIN edges
    ELSE IF pc = "write" THEN 1 .. (idx - 1)
    ELSE {}

\* the processed records that name segment s
Naming(s) == {j \in Processed : RowExists(edges[j]) /\ RowTarget(edges[j]) = s}

Last(S) == CHOOSE j \in S : \A k \in S : k <= j

\* C4: a record whose identity does not exist in the network changes
\* nothing, the loop goes on to the end of the batch, and every record
\* whose identity exists, before or after a bad one, has its comfort and
\* cost written on its segment.
C4_SkipAndContinue ==
    /\ DOMAIN G = DOMAIN Network
    /\ pc = "write" => idx <= Len(edges) + 1
    /\ \A s \in DOMAIN G :
        IF Naming(s) = {} THEN G[s] = Network[s]
        ELSE LET row == edges[Last(Naming(s))]
             IN  /\ DOMAIN G[s] = {"length", "comfort", "cost"}
                 /\ G[s]["length"] = Network[s]["length"]
                 /\ G[s]["comfort"] = StoredComfort(row.comfort)
                 /\ G[s]["cost"] = StoredCost(row.cost, Network[s]["length"])

\* a batch with a bad record between two good ones, wholly processed
C4_Witness ==
    /\ pc = "done"
    /\ RowExists(edges[1]) /\ ~RowExists(edges[2]) /\ RowExists(edges[3])
    /\ RowTarget(edges[1]) # RowTarget(edges[3])
    /\ "cost" \in DOMAIN G[RowTarget(edges[1])]
    /\ "cost" \in DOMAIN G[RowTarget(edges[3])]
    /\ \E s \in DOMAIN G : G[s] = Network[s]

---------------------------------------------------------------------------
(* min_max called on a series of its own                                   *)

MaxLen == 4

\* values around the 1e-6 threshold of line 59: 0, 5e-7, 1e-6, 3e-6, and
\* one below zero (NDVI can be negative), and the missing value
SeriesVals == {NaN, R(0), <<1, 2000000>>, <<1, 1000000>>, <<3, 1000000>>, R(-1)}

NormInit ==
    /\ pc = "call_min_max"
    /\ series \in UNION {[1 .. n -> SeriesVals] : n \in 1 .. MaxLen}
    /\ normed = <<>>
    /\ edges = <<>> /\ G = <<>> /\ idx = 0
    /\ weights = <<>> /\ inputs = <<>> /\ score = NaN
    /\ orig_node = 0 /\ dest_node = 0
    /\ bd = NoSearch /\ route = <<>> /\ outcome = "idle"

CallMinMax ==
    /\ pc = "call_min_max"
    /\ normed' = min_max(series)
    /\ pc' = "returned"
    /\ UNCHANGED <<edges, G, idx, series, weights, inputs, score,
                   orig_node, dest_node, bd, route, outcome>>

NormNext == CallMinMax

SpecNorm == NormInit /\ [][NormNext]_vars

\* the non-missing values of the argument
Present == {series[i] : i \in {j \in DOMAIN series : ~IsNaN(series[j])}}

\* max - min >= 1e-6 over the non-missing values
NonDegenerate ==
    \E lo \in Present, hi \in Present : RLe(Eps, RSub(hi, lo))

\* C7: on a non-degenerate collection min_max maps each non-missing v to
\* (v - min) / (max - min), min and max over the non-missing values only;
\* every such output is in [0, 1], the smallest is 0 and the largest is 1.
C7_MinMaxRange ==
    (pc = "returned" /\ NonDegenerate) =>
        \E lo \in Present, hi \in Present :
            /\ \A x \in Present : RLe(lo, x) /\ RLe(x, hi)
            /\ \A i \in DOMAIN series :
                ~IsNaN(series[i]) =>
                    /\ normed[i] = RDiv(RSub(series[i], lo), RSub(hi, lo))
                    /\ RLe(R(0), normed[i]) /\ RLe(normed[i], R(1))
                    /\ series[i] = lo => normed[i] = R(0)
                    /\ series[i] = hi => normed[i] = R(1)

\* a non-degenerate series with a missing entry and an interior value
C7_Witness ==
    /\ pc = "returned" /\ NonDegenerate
    /\ \E i \in DOMAIN series : IsNaN(series[i])
    /\ \E i \in DOMAIN series : normed[i] = R(0)
    /\ \E i \in DOMAIN series : normed[i] = R(1)
    /\ \E i \in DOMAIN series : RLt(R(0), normed[i]) /\ RLt(normed[i], R(1))

\* C8: for every input, degenerate or not, a missing entry of the input is
\* a missing entry of the output, and a non-missing entry becomes a number
\* (0 when max - min < 1e-6).
C8_MissingPropagates ==
    pc = "returned" =>
        \A i \in DOMAIN series :
            /\ IsNaN(series[i]) => IsNaN(normed[i])
            /\ ~IsNaN(series[i]) => ~IsNaN(normed[i])
            /\ (~IsNaN(series[i]) /\ ~NonDegenerate) => normed[i] = R(0)

---------------------------------------------------------------------------
(* The comfort expression evaluated on weights and inputs of its own       *)

WeightSteps == 4

InputSteps == 2

\* weights >= 0 that sum to 1: the program's own, and every triple of
\* multiples of 1/WeightSteps
WeightTriples ==
    {<<w_L, w_N, w_A>>} \cup
    {<<Rat(q[1], WeightSteps), Rat(q[2], WeightSteps),
       Rat(WeightSteps - q[1] - q[2], WeightSteps)>> :
        q \in {p \in (0 .. WeightSteps) \X (0 .. WeightSteps) :
                    p[1] + p[2] <= WeightSteps}}

UnitVals == {Rat(k, InputSteps) : k \in 0 .. InputSteps}

ScoreInit ==
    /\ pc = "call_score"
    /\ weights \in WeightTriples
    /\ inputs \in UnitVals \X UnitVals \X UnitVals
    /\ score = NaN
    /\ edges = <<>> /\ G = <<>> /\ idx = 0
    /\ series = <<>> /\ normed = <<>>
    /\ orig_node = 0 /\ dest_node = 0
    /\ bd = NoSearch /\ route = <<>> /\ outcome = "idle"

CallScore ==
    /\ pc = "call_score"
    /\ score' = Comfort(weights[1], weights[2], weights[3],
                        inputs[1], inputs[2], inputs[3])
    /\ pc' = "returned"
    /\ UNCHANGED <<edges, G, idx, series, normed, weights, inputs,
                   orig_node, dest_node, bd, route, outcome>>

ScoreNext == CallScore

SpecScore == ScoreInit /\ [][ScoreNext]_vars

AllPositive == \A k \in 1 .. 3 : RLt(R(0), weights[k])

\* C9: for weights >= 0 that sum to 1 and inputs in [0, 1] the score is in
\* [0, 1]; it is 1 at (0, 1, 0) and 0 at (1, 0, 1), and with all weights
\* positive nowhere else.
C9_ScoreInUnitInterval ==
    pc = "returned" =>
        /\ RLe(R(0), score) /\ RLe(score, R(1))
        /\ inputs = <<R(0), R(1), R(0)>> => score = R(1)
        /\ inputs = <<R(1), R(0), R(1)>> => score = R(0)
        /\ (AllPositive /\ score = R(1)) => inputs = <<R(0), R(1), R(0)>>
        /\ (AllPositive /\ score = R(0)) => inputs = <<R(1), R(0), R(1)>>

C9_Witness ==
    /\ pc = "returned"
    /\ weights = <<w_L, w_N, w_A>>
    /\ inputs = <<R(0), R(1), R(0)>>
    /\ score = R(1)

---------------------------------------------------------------------------
(* 7. find_coolest_route (lines 103-108)                                   *)
(*                                                                         *)
(* nx.shortest_path(G, orig_node, dest_node, weight='cost') on a           *)
(* MultiDiGraph is networkx's bidirectional Dijkstra: two searches, from   *)
(* the source along successors and from the target along predecessors,     *)
(* taking turns; bd holds its locals under networkx's names, each pair     *)
(* [forward, backward] as a tuple indexed dir + 1.                         *)

NumNodes == 3

Nodes == 1 .. NumNodes

\* the segments a network may have: two parallel 1 -> 2, 2 -> 3 with a
\* shortcut 1 -> 3, and 3 -> 1, 3 -> 2 closing cycles
Candidates ==
    {<<1, 2, 0>>, <<1, 2, 1>>, <<2, 3, 0>>, <<1, 3, 0>>,
     <<3, 1, 0>>, <<3, 2, 0>>}

CostVals == {R(0), R(2), R(5)}

Networks ==
    UNION {{[s \in P |-> ("cost" :> f[s])] : f \in [P -> CostVals]} :
              P \in SUBSET Candidates}

\* a multigraph weight that looks at the first parallel segment only
HopCostFirstKey(g, u, v) ==
    LET k == CHOOSE k \in Parallel(g, u, v) : \A j \in Parallel(g, u, v) : k <= j
    IN  Get(g[<<u, v, k>>], "cost", R(1))

\* networkx's weight function of a multigraph for weight='cost':
\* min(attr.get('cost', 1) for attr in d.values()), d = G[u][v]
HopCost(g, u, v) ==
    LET cs == {Get(g[<<u, v, k>>], "cost", R(1)) : k \in Parallel(g, u, v)}
    IN  CHOOSE m \in cs : \A x \in cs : RLe(m, x)

\* G._succ[v] and G._pred[v]
Succ(g, v) == {w \in Nodes : HasAdj(g, v, w)}

Pred(g, v) == {w \in Nodes : HasAdj(g, w, v)}

\* the graph with every segment also walkable backwards
Undirected(g) ==
    [s \in DOMAIN g \cup {<<t[2], t[1], t[3]>> : t \in DOMAIN g} |->
        IF s \in DOMAIN g THEN g[s] ELSE g[<<s[2], s[1], s[3]>>]]

\* line 107: the graph handed to nx.shortest_path is G itself, directed
SearchGraph(g) == g

Reverse(s) == [i \in 1 .. Len(s) |-> s[Len(s) + 1 - i]]

\* the orders in which a dict of neighbours may be iterated
Orders(S) ==
    {o \in [1 .. Cardinality(S) -> S] : \A i, j \in DOMAIN o : i # j => o[i] # o[j]}

\* heappop: the entry least by (distance, insertion count)
HeapMin(F) ==
    CHOOSE e \in F :
        \A x \in F : RLt(e[1], x[1]) \/ (e[1] = x[1] /\ e[2] <= x[2])

\* the for loop over the neighbours ws of the node v just settled
RECURSIVE Relax(_, _, _, _, _)
Relax(st, g, d, v, ws) ==
    IF ws = <<>> \/ st.raised THEN st
    ELSE
    LET w == Head(ws)
        cost == IF d = 0 THEN HopCost(g, v, w) ELSE HopCost(g, w, v)
        vwLength == RAdd(st.dists[d + 1][v], cost)
    IN  IF w \in DOMAIN st.dists[d + 1]
        THEN IF RLt(vwLength, st.dists[d + 1][w])
             THEN [st EXCEPT !.raised = TRUE]
             ELSE Relax(st, g, d, v, Tail(ws))
        ELSE IF w \notin DOMAIN st.seen[d + 1] \/ RLt(vwLength, st.seen[d + 1][w])
        THEN LET st1 == [st EXCEPT
                    !.seen[d + 1] = (w :> vwLength) @@ @,
                    !.fringe[d + 1] = @ \cup {<<vwLength, st.c, w>>},
                    !.c = @ + 1,
                    !.paths[d + 1] = (w :> Append(st.paths[d + 1][v], w)) @@ @]
                 totaldist == RAdd(st1.seen[1][w], st1.seen[2][w])
                 st2 == IF /\ w \in DOMAIN st1.seen[1]
                           /\ w \in DOMAIN st1.seen[2]
                           /\ (st1.finalpath = <<>> \/ RLt(totaldist, st1.finaldist))
                        THEN [st1 EXCEPT
                                !.finaldist = totaldist,
                                !.finalpath = st1.paths[1][w]
                                              \o Tail(Reverse(st1.paths[2][w]))]
                        ELSE st1
             IN  Relax(st2, g, d, v, Tail(ws))
        ELSE Relax(st, g, d, v, Tail(ws))

RouteFrame == UNCHANGED <<edges, G, idx, series, normed, weights, inputs, score>>

\* the router is idle on a network whose segments all carry a cost >= 0
RouteInit ==
    /\ pc = "resolve"
    /\ G \in Networks
    /\ orig_node = 0 /\ dest_node = 0
    /\ bd = NoSearch /\ route = <<>> /\ outcome = "idle"
    /\ edges = <<>> /\ idx = 0
    /\ series = <<>> /\ normed = <<>>
    /\ weights = <<>> /\ inputs = <<>> /\ score = NaN

\* lines 105-106: ox.distance.nearest_nodes gives some node of G for each
\* of the two points
Resolve ==
    /\ pc = "resolve"
    /\ orig_node' \in Nodes
    /\ dest_node' \in Nodes
    /\ pc' = "call"
    /\ outcome' = "resolved"
    /\ UNCHANGED <<bd, route>>
    /\ RouteFrame

\* line 107, the call: source = target returns [source] at once; otherwise
\* both heaps start with their end of the search
StartSearch ==
    /\ pc = "call"
    /\ IF orig_node = dest_node
       THEN /\ route' = <<orig_node>>
            /\ outcome' = "found"
            /\ pc' = "returned"
            /\ bd' = bd
       ELSE /\ bd' = [dists |-> << <<>>, <<>> >>,
                      paths |-> <<(orig_node :> <<orig_node>>),
                                  (dest_node :> <<dest_node>>)>>,
                      fringe |-> <<{<<R(0), 0, orig_node>>},
                                   {<<R(0), 1, dest_node>>}>>,
                      seen |-> <<(orig_node :> R(0)), (dest_node :> R(0))>>,
                      c |-> 2, dir |-> 1,
                      finaldist |-> NaN, finalpath |-> <<>>, raised |-> FALSE]
            /\ outcome' = "searching"
            /\ pc' = "search"
            /\ route' = route
    /\ UNCHANGED <<orig_node, dest_node>>
    /\ RouteFrame

\* line 107, one iteration of the search's while loop
SearchStep ==
    /\ pc = "search"
    /\ bd.fringe[1] # {} /\ bd.fringe[2] # {}
    /\ LET d == 1 - bd.dir
           e == HeapMin(bd.fringe[d + 1])
           v == e[3]
           popped == [bd EXCEPT !.dir = d, !.fringe[d + 1] = @ \ {e}]
       IN  IF v \in DOMAIN bd.dists[d + 1]
           THEN /\ bd' = popped
                /\ UNCHANGED <<pc, route, outcome>>
           ELSE LET settled == [popped EXCEPT !.dists[d + 1] = (v :> e[1]) @@ @]
                IN  IF v \in DOMAIN bd.dists[2 - d]
                    THEN /\ bd' = settled
                         /\ route' = bd.finalpath
                         /\ outcome' = "found"
                         /\ pc' = "returned"
                    ELSE \E ws \in Orders(IF d = 0 THEN Succ(SearchGraph(G), v)
                                                      ELSE Pred(SearchGraph(G), v)) :
                            LET after == Relax(settled, SearchGraph(G), d, v, ws)
                            IN  /\ bd' = after
                                /\ route' = route
                                /\ IF after.raised
                                   THEN outcome' = "valueerror" /\ pc' = "raised"
                                   ELSE UNCHANGED <<pc, outcome>>
    /\ UNCHANGED <<orig_node, dest_node>>
    /\ RouteFrame

\* line 107: a heap ran empty, nx.NetworkXNoPath propagates to the caller
SearchFail ==
    /\ pc = "search"
    /\ (bd.fringe[1] = {} \/ bd.fringe[2] = {})
    /\ outcome' = "nopath"
    /\ pc' = "raised"
    /\ UNCHANGED <<orig_node, dest_node, bd, route>>
    /\ RouteFrame

RouteNext ==
    \/ Resolve
    \/ StartSearch
    \/ SearchStep
    \/ SearchFail

SpecRoute == RouteInit /\ [][RouteNext]_vars

---------------------------------------------------------------------------
(* Claims about the router                                                 *)

Finished == pc \in {"returned", "raised"}

\* the cost of a hop u -> v: that of the cheapest parallel segment
Cheapest(g, u, v) ==
    LET cs == {g[s]["cost"] : s \in {t \in DOMAIN g : t[1] = u /\ t[2] = v}}
    IN  CHOOSE m \in cs : \A x \in cs : RLe(m, x)

Joined(g, u, v) == \E s \in DOMAIN g : s[1] = u /\ s[2] = v

Least(S) == IF S = {} THEN NaN ELSE CHOOSE m \in S : \A x \in S : RLe(m, x)

\* one round of relaxation of a distance map, a sequence indexed by node
\* (NaN: no walk known), built from node v on
RECURSIVE Round(_, _, _)
Round(g, dm, v) ==
    IF v > NumNodes THEN <<>>
    ELSE <<Least(({dm[v]} \ {NaN}) \cup
                 {RAdd(dm[u], Cheapest(g, u, v)) :
                     u \in {x \in Nodes : ~IsNaN(dm[x]) /\ Joined(g, x, v)}})>>
         \o Round(g, dm, v + 1)

RECURSIVE Rounds(_, _, _)
Rounds(g, dm, k) == IF k = 0 THEN dm ELSE Rounds(g, Round(g, dm, 1), k - 1)

RECURSIVE Start(_, _)
Start(s, v) ==
    IF v > NumNodes THEN <<>>
    ELSE <<IF v = s THEN R(0) ELSE NaN>> \o Start(s, v + 1)

\* the least total cost of a walk from s to t, NaN when there is none
MinWalkCost(g, s, t) == Rounds(g, Start(s, 1), NumNodes)[t]

IsWalk(g, r, s, t) ==
    /\ Len(r) >= 1
    /\ r[1] = s /\ r[Len(r)] = t
    /\ \A i \in 1 .. (Len(r) - 1) : Joined(g, r[i], r[i + 1])

RECURSIVE WalkCost(_, _)
WalkCost(g, r) ==
    IF Len(r) <= 1 THEN R(0)
    ELSE RAdd(Cheapest(g, r[1], r[2]), WalkCost(g, Tail(r)))

\* C1: when the destination can be reached from the origin, the router
\* returns a walk from origin to destination of least total cost, a hop
\* counting as its cheapest parallel segment.
C1_RouteIsCheapestWalk ==
    (Finished /\ ~IsNaN(MinWalkCost(G, orig_node, dest_node))) =>
        /\ outcome = "found"
        /\ IsWalk(G, route, orig_node, dest_node)
        /\ WalkCost(G, route) = MinWalkCost(G, orig_node, dest_node)

\* parallel segments 1 -> 2 of cost 5 and 2: the route 1, 2 costs 2; and
\* elsewhere a route of three hops
C1_Witness ==
    /\ pc = "returned" /\ outcome = "found"
    /\ <<1, 2, 0>> \in DOMAIN G /\ <<1, 2, 1>> \in DOMAIN G
    /\ G[<<1, 2, 0>>]["cost"] = R(5) /\ G[<<1, 2, 1>>]["cost"] = R(2)
    /\ orig_node = 1 /\ dest_node = 2
    /\ route = <<1, 2>>
    /\ WalkCost(G, route) = R(2)

C2_NoPathOutcome ==
    (Finished /\ IsNaN(MinWalkCost(G, orig_node, dest_node))) =>
        /\ outcome = "nopath"
        /\ route = <<>>

\* C2: when the destination cannot be reached from the origin the router
\* ends with the no-path error and returns no node sequence; once it has
\* failed it takes no further step (no retry), and no step of the router
\* changes the network.
C2_NoPathIsReported ==
    /\ [](C2_NoPathOutcome)
    /\ [][outcome # "nopath" /\ G' = G]_vars

\* a failed search from an origin that has segments to follow
C2_Witness ==
    /\ pc = "raised" /\ outcome = "nopath" /\ route = <<>>
    /\ orig_node # dest_node
    /\ Succ(G, orig_node) # {}

====
